---------------------------- MODULE Spec2Model ----------------------------
(***************************************************************************)
(* Model of the lottery analysis scripts (src/lottery_test) and of the     *)
(* screen reader (src/screen-reader/src).                                  *)
(*                                                                         *)
(* The specifications sharing the module, one per object under study:      *)
(*   SpecAnalyze      the counting passes analyze() / analyze_weighted()   *)
(*   SpecSample       the roulette-wheel sampler _weighted_sample, one     *)
(*                    action per iteration of its draw loop                *)
(*   SpecPredict      LotteryPredictor.predict / predict_by_recent_data    *)
(*   SpecPredictBoth  LotteryPredictor.predict_both_methods                *)
(*   SpecTTS          TTSPlayer: speak() and stop() against the playback   *)
(*                    thread, one action per observable statement          *)
(*   SpecSelector     RegionSelector: mouse callback and key handling      *)
(*   SpecTTSFair      SpecTTS with the playback thread scheduled fairly    *)
(*   SpecFetcher      DataFetcher: fetch_and_save_all() and update() on    *)
(*                    the CSV file, load() and get_local_latest_issue()    *)
(*   SpecReader       ScreenReader.run(): the monitoring loop, its         *)
(*                    exceptions and stop(), with the playback thread      *)
(* Each specification moves the variables of its own object and finds the  *)
(* others as their constructors leave them.                                *)
(* Arithmetic is exact: every weight the program builds is an integer (or  *)
(* an integer-valued float), and a random draw r is taken on a half-unit   *)
(* grid (r2 = 2*r), which reaches every position r can take relative to   *)
(* the integer cumulative sums.                                            *)
(***************************************************************************)
EXTENDS Integers, Sequences, FiniteSets, TLC

VARIABLES
    \* ---- FrequencyAnalyzer / WeightedFrequencyAnalyzer ----
    data,            \* self.data, the record list handed to the analyzer
    recent_weight,   \* self.recent_weight
    freq,            \* what the last analyze() produced
    weighted_freq,   \* what the last analyze_weighted() produced
    recent_arg,      \* the recent_count argument of the last analyze_weighted()
    recent_data,     \* local recent_data of the last analyze_weighted()
    early_data,      \* local early_data of the last analyze_weighted()
    \* ---- _weighted_sample(weights, count, max_val), one call ----
    s_pc,            \* "idle", "loop" (in `for _ in range(count)`), "returned"
    weights,         \* parameter weights: a dict symbol -> weight
    count,           \* parameter count
    max_val,         \* parameter max_val
    available,       \* local available
    selected,        \* local selected, in the order of selection
    iter,            \* iterations of the draw loop completed
    last_r2,         \* twice the value r drawn in the last iteration
    last_pool,       \* available as the last iteration found it
    last_pick,       \* the symbol the last iteration selected, 0 for none
    sample_result,   \* the returned list
    \* ---- LotteryPredictor ----
    p_call,          \* the last predict / predict_by_recent_data call: its arguments
    p_out,           \* how that call ended, with the weight tables it built
    prediction_history,  \* self.prediction_history
    p_returned,      \* the dicts predict / predict_by_recent_data returned to
                     \* their callers so far, in call order
    p_appended_as,   \* the entries of self.prediction_history as each was
                     \* when it was appended
    w_history,       \* prediction_history of the WeightedFrequencyAnalyzer the
                     \* last call created (predict_by_recent_data's local
                     \* analyzer), as the call left it
    w_appended_as,   \* its entries as each was when it was appended
    \* ---- TTSPlayer (screen-reader/src/tts.py) ----
    _queue,          \* self._queue, the texts waiting to be spoken
    _running,        \* self._running
    lock,            \* holder of self._lock: "free", "main" or "player"
    t_pc,            \* position of the playback thread in _speak_thread
    t_text,          \* its local text (<<>> for None)
    m_pc,            \* position of the main thread in speak() / stop()
    m_text,          \* local text of speak() after strip()
    speak_calls,     \* speak() calls made so far
    stop_calls,      \* stop() calls made so far
    accepted,        \* the texts speak() appended, in append order
    q_idx,           \* for each queued text, its position in accepted
    t_idx,           \* position in accepted of the text the thread holds, or 0
    handed,          \* the texts handed to the speech engine, in order
    handed_idx,      \* their positions in accepted
    stop_waiting,    \* positions of the texts queued when a stop() was called
    after_stop,      \* positions of the texts speak() appended after a stop()
    \* ---- ScreenReader (screen-reader/src/main.py) ----
    is_running,      \* self.is_running
    last_text,       \* self.last_text
    r_pc,            \* position of the main thread in run()
    r_text,          \* the local text of the last changed reading, normalised
    r_prev,          \* self.last_text when that reading was compared
    r_delta,         \* the local new_content computed from it
    r_changed,       \* a changed reading has been processed
    r_iters,         \* iterations of the monitoring loop started so far
    r_append_only,   \* every changed reading so far extended the one before
    r_raised,        \* the exception that ended the loop ("none" before)
    r_escaped,       \* the exception run() let through ("none" if it did not)
    \* ---- RegionSelector (screen-reader/src/selector.py) ----
    coords,          \* self.coords: ix, iy, x_end, y_end, drawing
    sel_pc,          \* select_region(): "selecting", "confirmed", "cancelled"
    region,          \* what select_region() returned (<<>> before, and for None)
    last_event,      \* the last mouse event or key delivered: type, x, y
    \* ---- DataFetcher (lottery_test/data_fetcher.py) ----
    csv_lines,       \* the lines of the CSV file after its header line
    update_calls,    \* update() calls made so far
    u_response,      \* what fetch_latest() returned to the last update()
    u_prev_response, \* ... and to the update() before it
    u_appended,      \* the lines the last update() appended
    u_return,        \* what the last update() returned
    no_repeat,       \* no response so far held one issue twice
    fetched_all      \* fetch_and_save_all() has rebuilt the file

analyzeVars == <<data, recent_weight, freq, weighted_freq, recent_arg,
                 recent_data, early_data>>

sampleVars == <<s_pc, weights, count, max_val, available, selected, iter,
                last_r2, last_pool, last_pick, sample_result>>

predictVars == <<p_call, p_out, prediction_history, p_returned, p_appended_as,
                 w_history, w_appended_as>>

ttsVars == <<_queue, _running, lock, t_pc, t_text, m_pc, m_text, speak_calls,
             stop_calls, accepted, q_idx, t_idx, handed, handed_idx,
             stop_waiting, after_stop>>

readerVars == <<is_running, last_text, r_pc, r_text, r_prev, r_delta,
                r_changed, r_iters, r_append_only, r_raised, r_escaped>>

lotteryVars == <<analyzeVars, sampleVars, predictVars>>

selectorVars == <<coords, sel_pc, region, last_event>>

fetcherVars == <<csv_lines, update_calls, u_response, u_prev_response,
                 u_appended, u_return, no_repeat, fetched_all>>

\* the objects outside the lottery scripts
extVars == <<ttsVars, selectorVars, fetcherVars, readerVars>>

vars == <<lotteryVars, extVars>>

\* TTSPlayer.__init__: empty queue, lock free, _running True, thread started
TTSInit ==
    /\ _queue = <<>>
    /\ _running = TRUE
    /\ lock = "free"
    /\ t_pc = "while"
    /\ t_text = <<>>
    /\ m_pc = "idle"
    /\ m_text = <<>>
    /\ speak_calls = 0
    /\ stop_calls = 0
    /\ accepted = <<>>
    /\ q_idx = <<>>
    /\ t_idx = 0
    /\ handed = <<>>
    /\ handed_idx = <<>>
    /\ stop_waiting = {}
    /\ after_stop = {}

\* ScreenReader.__init__: no reading yet, not monitoring
ReaderInit ==
    /\ is_running = FALSE
    /\ last_text = <<>>
    /\ r_pc = "constructed"
    /\ r_text = <<>>
    /\ r_prev = <<>>
    /\ r_delta = <<>>
    /\ r_changed = FALSE
    /\ r_iters = 0
    /\ r_append_only = TRUE
    /\ r_raised = "none"
    /\ r_escaped = "none"

\* RegionSelector.__init__, and select_region() showing its window
SelectorInit ==
    /\ coords = [ix |-> -1, iy |-> -1, x_end |-> -1, y_end |-> -1,
                 drawing |-> FALSE]
    /\ sel_pc = "selecting"
    /\ region = <<>>
    /\ last_event = [type |-> "none", x |-> -1, y |-> -1]

\* DataFetcher.__init__ and init_data_file(): a file holding the header only
FetcherInit ==
    /\ csv_lines = <<>>
    /\ update_calls = 0
    /\ u_response = <<>>
    /\ u_prev_response = <<>>
    /\ u_appended = <<>>
    /\ u_return = 0
    /\ no_repeat = TRUE
    /\ fetched_all = FALSE

\* the objects outside the lottery scripts, as constructed and left alone
ExtIdle == TTSInit /\ SelectorInit /\ FetcherInit /\ ReaderInit

-----------------------------------------------------------------------------
(* Program constants *)

\* range(1, 34): the red (primary) symbols are 1..33
RedRange == 33
\* range(1, 17): the blue (secondary) symbols are 1..16
BlueRange == 16
\* red_count: int = 6
RedCount == 6
\* recent_weight: float = 3.0
DefaultRecentWeight == 3

(* Bounds of the model *)

\* longest record list enumerated exhaustively
MaxRecords == 3
\* length of the repeated-record scenario (one record repeated)
ExampleRepeat == 10
\* largest max_val the sampler is called with
MaxVal == 3
\* largest weight of an enumerated weight table
MaxW == 2
\* most predictions a predictor's history holds
MaxHistory == 2

-----------------------------------------------------------------------------
(* Records *)

Record(reds, blue) == [red_balls |-> reds, blue_ball |-> blue]

\* well-formed draws: six distinct red balls in 1..33, a blue ball in 1..16
ValidRecords ==
    { Record(<<1, 2, 3, 4, 5, 6>>, 7),
      Record(<<3, 9, 17, 22, 30, 33>>, 16),
      Record(<<1, 2, 3, 22, 30, 33>>, 7) }

\* records as DataFetcher._parse_response can build them from a response with
\* missing or wrong fields: blue_ball = 0 for a missing backWinningNum, red
\* numbers outside 1..33, a repeated red number
MalformedRecords ==
    { Record(<<1, 2, 3, 4, 5, 6>>, 0),
      Record(<<0, 2, 3, 4, 5, 34>>, 7),
      Record(<<1, 1, 2, 3, 4, 5>>, 16) }

RecordPool == ValidRecords \cup MalformedRecords

RECURSIVE SeqsUpTo(_, _)
SeqsUpTo(S, n) ==
    IF n = 0 THEN { <<>> }
    ELSE LET shorter == SeqsUpTo(S, n - 1)
         IN  shorter \cup { Append(s, x) : s \in shorter, x \in S }

Repeat(x, n) == [i \in 1..n |-> x]

\* the elements of a list
Range(s) == { s[i] : i \in DOMAIN s }

\* the record lists an analyzer is constructed with
DataChoices ==
    SeqsUpTo(RecordPool, MaxRecords)
        \cup { Repeat(r, ExampleRepeat) : r \in ValidRecords }

\* recent_count arguments: any int, negative ones included
RecentCountChoices == (0 - (MaxRecords + 1)) .. (MaxRecords + 1)

\* recent_weight = 1 (no weighting) and the default 3.0
RecentWeightChoices == { 1, DefaultRecentWeight }

-----------------------------------------------------------------------------
(* Python list slicing, data[start:] and data[:stop], with negative indices *)

\* a slice index as Python normalises it against a list of length n
PyIndex(i, n) ==
    IF i < 0 THEN (IF i + n < 0 THEN 0 ELSE i + n)
    ELSE (IF i > n THEN n ELSE i)

\* s[start:]
PySliceFrom(s, start) ==
    LET lo == PyIndex(start, Len(s))
    IN  IF lo >= Len(s) THEN <<>> ELSE SubSeq(s, lo + 1, Len(s))

\* s[:stop]
PySliceTo(s, stop) ==
    LET hi == PyIndex(stop, Len(s))
    IN  IF hi <= 0 THEN <<>> ELSE SubSeq(s, 1, hi)

-----------------------------------------------------------------------------
(* FrequencyAnalyzer.analyze *)

NotCalled == [status |-> "not_called"]

\* mutant: range(1, 33), the last red symbol forgotten
InitRedFrequencyShort == [i \in 1..(RedRange - 1) |-> 0]

\* red_frequency = {i: 0 for i in range(1, 34)}
InitRedFrequency == [i \in 1..RedRange |-> 0]

\* blue_frequency = {i: 0 for i in range(1, 17)}
InitBlueFrequency == [i \in 1..BlueRange |-> 0]

\* the empty dict {}
EmptyDict == [i \in {} |-> 0]

\* mutant: red_frequency[ball] = 1 in place of += 1
RECURSIVE CountRedBallsAssign(_, _)
CountRedBallsAssign(red, balls) ==
    IF balls = <<>> THEN red
    ELSE LET ball == Head(balls)
         IN  CountRedBallsAssign(
                 IF ball \in DOMAIN red
                 THEN [red EXCEPT ![ball] = 1]
                 ELSE red,
                 Tail(balls))

\* for ball in item['red_balls']: if ball in red_frequency: red_frequency[ball] += 1
RECURSIVE CountRedBalls(_, _)
CountRedBalls(red, balls) ==
    IF balls = <<>> THEN red
    ELSE LET ball == Head(balls)
         IN  CountRedBalls(
                 IF ball \in DOMAIN red
                 THEN [red EXCEPT ![ball] = @ + 1]
                 ELSE red,
                 Tail(balls))

\* mutant: the blue ball is looked up but never counted
CountItemNoBlue(t, item) ==
    IF t.status # "ok" THEN t
    ELSE LET red == CountRedBalls(t.red, item.red_balls)
         IN  IF item.blue_ball \in DOMAIN t.blue
             THEN [t EXCEPT !.red = red]
             ELSE [t EXCEPT !.status = "KeyError", !.red = red]

\* the body of `for item in self.data`; t holds both tables and the raised
\* exception, if any.  blue_frequency[item['blue_ball']] += 1 raises KeyError
\* for a key the dict does not hold.
CountItem(t, item) ==
    IF t.status # "ok" THEN t
    ELSE LET red == CountRedBalls(t.red, item.red_balls)
         IN  IF item.blue_ball \in DOMAIN t.blue
             THEN [t EXCEPT !.red = red,
                            !.blue = [t.blue EXCEPT ![item.blue_ball] = @ + 1]]
             ELSE [t EXCEPT !.status = "KeyError", !.red = red]

RECURSIVE CountItems(_, _)
CountItems(t, items) ==
    IF items = <<>> THEN t
    ELSE CountItems(CountItem(t, Head(items)), Tail(items))

\* analyze(): the returned dict, or the exception that left the call
analyze(d) ==
    IF d = <<>>
    THEN [status |-> "ok", red |-> EmptyDict, blue |-> EmptyDict,
          total_records |-> 0]
    ELSE LET t == CountItems([status |-> "ok", red |-> InitRedFrequency,
                              blue |-> InitBlueFrequency], d)
         IN  IF t.status = "ok"
             THEN [status |-> "ok", red |-> t.red, blue |-> t.blue,
                   total_records |-> Len(d)]
             ELSE [status |-> t.status]

-----------------------------------------------------------------------------
(* WeightedFrequencyAnalyzer.get_recent_data / analyze_weighted *)

\* return self.data[-count:] if count <= len(self.data) else self.data
get_recent_data(d, cnt) ==
    IF cnt <= Len(d) THEN PySliceFrom(d, 0 - cnt) ELSE d

\* mutant: early_data = self.data, the recent records counted twice
EarlyDataAll(d, recent_count) == d

\* early_data = self.data[:-recent_count] if recent_count > 0 else []
EarlyData(d, recent_count) ==
    IF recent_count > 0 THEN PySliceTo(d, 0 - recent_count) ELSE <<>>

\* mutant: red_frequency[ball] += 1 in both loops, the weight not applied
RECURSIVE CountRedBallsUnweighted(_, _, _)
CountRedBallsUnweighted(red, balls, w) ==
    IF balls = <<>> THEN red
    ELSE LET ball == Head(balls)
         IN  CountRedBallsUnweighted(
                 IF ball \in DOMAIN red
                 THEN [red EXCEPT ![ball] = @ + 1]
                 ELSE red,
                 Tail(balls), w)

\* for ball in item['red_balls']: if ball in red_frequency: red_frequency[ball] += w
RECURSIVE CountRedBallsWeighted(_, _, _)
CountRedBallsWeighted(red, balls, w) ==
    IF balls = <<>> THEN red
    ELSE LET ball == Head(balls)
         IN  CountRedBallsWeighted(
                 IF ball \in DOMAIN red
                 THEN [red EXCEPT ![ball] = @ + w]
                 ELSE red,
                 Tail(balls), w)

\* the body of the two counting loops of analyze_weighted; w is 1 in the loop
\* over early_data and self.recent_weight in the loop over recent_data
CountItemWeighted(t, item, w) ==
    IF t.status # "ok" THEN t
    ELSE LET red == CountRedBallsWeighted(t.red, item.red_balls, w)
         IN  IF item.blue_ball \in DOMAIN t.blue
             THEN [t EXCEPT !.red = red,
                            !.blue = [t.blue EXCEPT ![item.blue_ball] = @ + w]]
             ELSE [t EXCEPT !.status = "KeyError", !.red = red]

RECURSIVE CountItemsWeighted(_, _, _)
CountItemsWeighted(t, items, w) ==
    IF items = <<>> THEN t
    ELSE CountItemsWeighted(CountItemWeighted(t, Head(items), w), Tail(items), w)

\* analyze_weighted(recent_count): the returned dict (or the exception), with
\* the locals recent_data and early_data
analyze_weighted(d, rw, recent_count) ==
    IF d = <<>>
    THEN [result |-> [status |-> "ok", red |-> EmptyDict, blue |-> EmptyDict,
                      total_records |-> 0, recent_count |-> 0],
          recent |-> <<>>, early |-> <<>>]
    ELSE LET recent == get_recent_data(d, recent_count)
             actual == Len(recent)
             early  == EarlyData(d, actual)
             t0 == [status |-> "ok", red |-> InitRedFrequency,
                    blue |-> InitBlueFrequency]
             t1 == CountItemsWeighted(t0, early, 1)
             t2 == CountItemsWeighted(t1, recent, rw)
         IN  [result |->
                  IF t2.status = "ok"
                  THEN [status |-> "ok", red |-> t2.red, blue |-> t2.blue,
                        total_records |-> Len(d), recent_count |-> actual]
                  ELSE [status |-> t2.status],
              recent |-> recent, early |-> early]

-----------------------------------------------------------------------------
(* _weighted_sample: roulette-wheel selection without replacement.         *)
(* LotteryPredictor._weighted_sample (607-624) and                         *)
(* WeightedFrequencyAnalyzer._weighted_sample (368-407) are the same code. *)

\* weights.get(i, 1)
WeightOf(w, i) == IF i \in DOMAIN w THEN w[i] ELSE 1

\* total_weight = sum(weights.get(i, 1) for i in available)
RECURSIVE TotalWeight(_, _)
TotalWeight(w, avail) ==
    IF avail = <<>> THEN 0
    ELSE WeightOf(w, Head(avail)) + TotalWeight(w, Tail(avail))

\* r = random.uniform(0, total_weight): the values of 2*r on the half-unit grid
DrawChoices(w, avail) == 0 .. (2 * TotalWeight(w, avail))

\* mutant: `if cumsum > r`, a strict comparison
RECURSIVE WalkStrict(_, _, _, _)
WalkStrict(w, avail, r2, cumsum) ==
    IF avail = <<>> THEN 0
    ELSE LET c == cumsum + WeightOf(w, Head(avail))
         IN  IF 2 * c > r2 THEN Head(avail)
             ELSE WalkStrict(w, Tail(avail), r2, c)

\* for i in available: cumsum += weights.get(i, 1); if cumsum >= r: ... break
\* The symbol selected, or 0 when the loop ends without selecting one.
RECURSIVE Walk(_, _, _, _)
Walk(w, avail, r2, cumsum) ==
    IF avail = <<>> THEN 0
    ELSE LET c == cumsum + WeightOf(w, Head(avail))
         IN  IF 2 * c >= r2 THEN Head(avail)
             ELSE Walk(w, Tail(avail), r2, c)

\* mutant: the selected symbol stays in the pool
ListRemoveNothing(avail, x) == avail

\* available.remove(i): the first occurrence of x leaves the list
RECURSIVE ListRemove(_, _)
ListRemove(avail, x) ==
    IF avail = <<>> THEN <<>>
    ELSE IF Head(avail) = x THEN Tail(avail)
    ELSE <<Head(avail)>> \o ListRemove(Tail(avail), x)

\* one iteration of `for _ in range(count)` with the draw r = r2 / 2
DrawOnce(w, avail, sel, r2) ==
    LET pick == Walk(w, avail, r2, 0)
    IN  IF pick = 0
        THEN [available |-> avail, selected |-> sel, pick |-> 0]
        ELSE [available |-> ListRemove(avail, pick),
              selected |-> Append(sel, pick), pick |-> pick]

\* sorted(selected)
RECURSIVE InsertSorted(_, _)
InsertSorted(s, x) ==
    IF s = <<>> THEN <<x>>
    ELSE IF x < Head(s) THEN <<x>> \o s
    ELSE <<Head(s)>> \o InsertSorted(Tail(s), x)

RECURSIVE PySorted(_)
PySorted(s) ==
    IF s = <<>> THEN <<>>
    ELSE InsertSorted(PySorted(Tail(s)), Head(s))

\* list(range(1, max_val + 1))
RangeList(m) == [i \in 1..m |-> i]

\* weight tables with positive weights, with every key of 1..m or with the
\* last key absent (weights.get(i, 1) then supplies 1), and the table
\* {1: 1, 2: 1, 3: 100}
WeightTables(m) ==
    [1..m -> 1..MaxW]
        \cup (IF m > 0 THEN [1..(m - 1) -> 1..MaxW] ELSE {})
        \cup (IF m = 3 THEN { <<1, 1, 100>> } ELSE {})

\* self.prediction_history = []
PredictIdle ==
    /\ p_call = [method |-> "none"]
    /\ p_out = [status |-> "none"]
    /\ prediction_history = <<>>
    /\ p_returned = <<>>
    /\ p_appended_as = <<>>
    /\ w_history = <<>>
    /\ w_appended_as = <<>>

SampleIdle ==
    /\ s_pc = "idle"
    /\ weights = <<>>
    /\ count = 0
    /\ max_val = 0
    /\ available = <<>>
    /\ selected = <<>>
    /\ iter = 0
    /\ last_r2 = 0
    /\ last_pool = <<>>
    /\ last_pick = 0
    /\ sample_result = <<>>

\* the call: available = list(range(1, max_val + 1)); selected = []
CallWeightedSample ==
    /\ s_pc = "idle"
    /\ \E m \in 0..MaxVal :
       \E w \in WeightTables(m) :
       \E k \in 0..(m + 1) :
           /\ weights' = w
           /\ count' = k
           /\ max_val' = m
           /\ available' = RangeList(m)
    /\ selected' = <<>>
    /\ iter' = 0
    /\ s_pc' = "loop"
    /\ UNCHANGED <<last_r2, last_pool, last_pick, sample_result>>
    /\ UNCHANGED <<analyzeVars, predictVars, extVars>>

\* one iteration of the draw loop
DrawStep ==
    /\ s_pc = "loop"
    /\ iter < count
    /\ \E r2 \in DrawChoices(weights, available) :
           LET d == DrawOnce(weights, available, selected, r2)
           IN  /\ available' = d.available
               /\ selected' = d.selected
               /\ last_pick' = d.pick
               /\ last_r2' = r2
    /\ last_pool' = available
    /\ iter' = iter + 1
    /\ UNCHANGED <<s_pc, weights, count, max_val, sample_result>>
    /\ UNCHANGED <<analyzeVars, predictVars, extVars>>

\* return sorted(selected)
SampleReturn ==
    /\ s_pc = "loop"
    /\ iter >= count
    /\ sample_result' = PySorted(selected)
    /\ s_pc' = "returned"
    /\ UNCHANGED <<weights, count, max_val, available, selected, iter,
                   last_r2, last_pool, last_pick>>
    /\ UNCHANGED <<analyzeVars, predictVars, extVars>>

AnalyzeIdle ==
    /\ data = <<>>
    /\ recent_weight = DefaultRecentWeight
    /\ freq = NotCalled
    /\ weighted_freq = NotCalled
    /\ recent_arg = 0
    /\ recent_data = <<>>
    /\ early_data = <<>>

InitSample == SampleIdle /\ AnalyzeIdle /\ PredictIdle /\ ExtIdle

NextSample == CallWeightedSample \/ DrawStep \/ SampleReturn

SpecSample == InitSample /\ [][NextSample]_vars

-----------------------------------------------------------------------------
(* Properties of the sampler, checked under SpecSample *)

\* the weight of the first j symbols of a pool
RECURSIVE CumWeight(_, _, _)
CumWeight(w, pool, j) ==
    IF j = 0 THEN 0
    ELSE CumWeight(w, pool, j - 1) + WeightOf(w, pool[j])

IsAscending(s) == \A i \in 1..(Len(s) - 1) : s[i] < s[i + 1]

\* C1: with positive weights and 0 <= k <= max_val, whatever the draws,
\* _weighted_sample returns exactly k symbols, distinct, ascending, each in
\* 1..max_val.
Thm_C1_SampleShape ==
    (/\ s_pc = "returned"
     /\ count <= max_val
     /\ \A i \in 1..max_val : WeightOf(weights, i) > 0)
        => /\ Len(sample_result) = count
           /\ IsAscending(sample_result)
           /\ Cardinality(Range(sample_result)) = count
           /\ Range(sample_result) \subseteq 1..max_val

\* a call whose draws selected the symbols in another order than ascending
Wit_C1_SortedAfterDraws ==
    /\ s_pc = "returned"
    /\ max_val = MaxVal
    /\ count = MaxVal - 1
    /\ selected # sample_result
    /\ Len(sample_result) = count
    /\ IsAscending(sample_result)

-----------------------------------------------------------------------------
(* SpecAnalyze: an analyzer constructed over some record list, on which    *)
(* analyze() and analyze_weighted() are called any number of times.        *)

InitAnalyze ==
    /\ data \in DataChoices
    /\ recent_weight \in RecentWeightChoices
    /\ freq = NotCalled
    /\ weighted_freq = NotCalled
    /\ recent_arg = 0
    /\ recent_data = <<>>
    /\ early_data = <<>>
    /\ SampleIdle
    /\ PredictIdle
    /\ ExtIdle

\* mutant: the records are consumed while they are counted
\* (`while self.data: item = self.data.pop(0)`)
AnalyzeDraining ==
    /\ freq' = analyze(data)
    /\ data' = <<>>
    /\ UNCHANGED <<recent_weight, weighted_freq, recent_arg, recent_data,
                   early_data>>
    /\ UNCHANGED <<sampleVars, predictVars, extVars>>

Analyze ==
    /\ freq' = analyze(data)
    /\ UNCHANGED <<data, recent_weight, weighted_freq, recent_arg,
                   recent_data, early_data>>
    /\ UNCHANGED <<sampleVars, predictVars, extVars>>

AnalyzeWeighted ==
    \E rc \in RecentCountChoices :
        LET out == analyze_weighted(data, recent_weight, rc)
        IN  /\ weighted_freq' = out.result
            /\ recent_arg' = rc
            /\ recent_data' = out.recent
            /\ early_data' = out.early
            /\ UNCHANGED <<data, recent_weight, freq>>
            /\ UNCHANGED <<sampleVars, predictVars, extVars>>

NextAnalyze == Analyze \/ AnalyzeWeighted

SpecAnalyze == InitAnalyze /\ [][NextAnalyze]_vars

-----------------------------------------------------------------------------
(* Properties of the counting passes, checked under SpecAnalyze *)

Min(a, b) == IF a <= b THEN a ELSE b

RECURSIVE SumOver(_, _)
SumOver(f, S) ==
    IF S = {} THEN 0
    ELSE LET x == CHOOSE y \in S : TRUE
         IN  f[x] + SumOver(f, S \ {x})

\* the sum of a table's values
SumTable(f) == SumOver(f, DOMAIN f)

\* six red symbols in 1..33 and a blue symbol in 1..16
InRangeRecord(r) ==
    /\ Len(r.red_balls) = RedCount
    /\ Range(r.red_balls) \subseteq 1..RedRange
    /\ r.blue_ball \in 1..BlueRange

\* a Record of the data model: in range, and the red symbols pairwise distinct
WellFormedRecord(r) ==
    /\ InRangeRecord(r)
    /\ Cardinality(Range(r.red_balls)) = RedCount

\* the number of records whose red balls contain s / whose blue ball is s
RedRecordsWith(s) ==
    Cardinality({ i \in 1..Len(data) : s \in Range(data[i].red_balls) })

BlueRecordsWith(s) ==
    Cardinality({ i \in 1..Len(data) : data[i].blue_ball = s })

Thm_C3_CountsSum ==
    (/\ freq.status = "ok"
     /\ data # <<>>
     /\ \A i \in 1..Len(data) : InRangeRecord(data[i]))
        => /\ SumTable(freq.red) = RedCount * Len(data)
           /\ SumTable(freq.blue) = Len(data)

Wit_C3_SeveralRecords ==
    /\ Len(data) = MaxRecords
    /\ \A i \in 1..Len(data) : InRangeRecord(data[i])
    /\ \E i, j \in 1..Len(data) : data[i] # data[j]
    /\ freq.status = "ok"
    /\ SumTable(freq.red) = RedCount * MaxRecords

\* C4: for a non-empty list of well-formed records, the red count of s is the
\* number of records whose red balls contain s and the blue count of s the
\* number of records whose blue ball is s.
Thm_C4_CountsAreOccurrences ==
    (/\ freq.status = "ok"
     /\ data # <<>>
     /\ \A i \in 1..Len(data) : WellFormedRecord(data[i]))
        => /\ \A s \in 1..RedRange : freq.red[s] = RedRecordsWith(s)
           /\ \A s \in 1..BlueRange : freq.blue[s] = BlueRecordsWith(s)

\* the scenario of the claim: {red 1..6, blue 7} repeated gives the repeat
\* count for the symbols 1..6 and 0 for 7..33
Wit_C4_RepeatedRecord ==
    /\ data = Repeat(Record(<<1, 2, 3, 4, 5, 6>>, 7), ExampleRepeat)
    /\ freq.status = "ok"
    /\ \A s \in 1..RedCount : freq.red[s] = ExampleRepeat
    /\ \A s \in (RedCount + 1)..RedRange : freq.red[s] = 0
    /\ freq.blue[7] = ExampleRepeat

\* analyze() and analyze_weighted() ended alike: both raised, or both
\* returned the same red and blue tables
SameOutcome ==
    /\ freq.status = weighted_freq.status
    /\ freq.status = "ok" =>
           /\ freq.red = weighted_freq.red
           /\ freq.blue = weighted_freq.blue

BothCalled ==
    /\ freq.status # "not_called"
    /\ weighted_freq.status # "not_called"

\* C5 (as amended): with recent_weight = 1, for every record list and every
\* recent_count >= 0, analyze_weighted(recent_count) yields the red and blue
\* tables of analyze().
Thm_C5_UnitWeightIsPlainCount ==
    (BothCalled /\ recent_weight = 1 /\ recent_arg >= 0) => SameOutcome

\* C5 as stated: with recent_weight = 1, for every recent_count.
Cex_C5_AnyRecentCount ==
    (BothCalled /\ recent_weight = 1) => SameOutcome

Wit_C5_SplitList ==
    /\ BothCalled
    /\ recent_weight = 1
    /\ Len(data) = MaxRecords
    /\ recent_arg > 0
    /\ early_data # <<>>
    /\ recent_data # <<>>
    /\ freq.status = "ok"
    /\ freq.red = weighted_freq.red

\* C9: the counting passes have no error outcome: whatever the records hold,
\* analyze() and analyze_weighted() complete and return their tables.
Cex_C9_NoErrorOutcome ==
    /\ freq.status \in { "not_called", "ok" }
    /\ weighted_freq.status \in { "not_called", "ok" }

\* C10: for a list of n records and recent_count w >= 0, the recent records
\* are exactly the last min(w, n), the early ones exactly the first
\* n - min(w, n), and the reported recent_count is min(w, n).
Cex_C10_RecentIsLastMin ==
    (weighted_freq.status # "not_called" /\ recent_arg >= 0) =>
        LET n == Len(data)
            m == Min(recent_arg, n)
        IN  /\ recent_data = SubSeq(data, n - m + 1, n)
            /\ early_data = SubSeq(data, 1, n - m)
            /\ weighted_freq.status = "ok" => weighted_freq.recent_count = m

-----------------------------------------------------------------------------
(* LotteryPredictor.predict / predict_by_recent_data and                   *)
(* WeightedFrequencyAnalyzer.predict_by_weighted_frequency.  A call is one *)
(* action; the draws of its samplers are an existential choice over every  *)
(* result the draw loop can produce.                                       *)

\* RECENT_COUNT = 160
RECENT_COUNT == 160

\* the states (available, selected) the draw loop can be in after n more
\* iterations, from the states S
RECURSIVE DrawLoopStates(_, _, _)
DrawLoopStates(w, S, n) ==
    IF n <= 0 THEN S
    ELSE DrawLoopStates(
             w,
             { [available |-> d.available, selected |-> d.selected] :
                 d \in UNION { { DrawOnce(w, st.available, st.selected, r2) :
                                   r2 \in DrawChoices(w, st.available) } :
                               st \in S } },
             n - 1)

\* every list _weighted_sample(weights, count, max_val) can return
weighted_sample_results(w, k, m) ==
    { PySorted(st.selected) :
        st \in DrawLoopStates(
                  w, { [available |-> RangeList(m), selected |-> <<>>] }, k) }

\* mutant: the loop runs over range(1, max_val), the last symbol left out
weighted_sample_one_short(w, m) ==
    { LET pick == Walk(w, RangeList(m - 1), r2, 0)
      IN  [symbol |-> IF pick = 0 THEN 1 ELSE pick, fallback |-> pick = 0] :
        r2 \in DrawChoices(w, RangeList(m)) }

\* every way _weighted_sample_one(weights, max_val) can return: the symbol,
\* and whether it came from the `return 1` after the loop over
\* range(1, max_val + 1) rather than from inside it
weighted_sample_one_runs(w, m) ==
    { LET pick == Walk(w, RangeList(m), r2, 0)
      IN  [symbol |-> IF pick = 0 THEN 1 ELSE pick, fallback |-> pick = 0] :
        r2 \in DrawChoices(w, RangeList(m)) }

\* freq['red'].get(i, 0)
FreqGet(table, i) == IF i \in DOMAIN table THEN table[i] ELSE 0

\* max(freq['red'].values())
MaxValue(table) ==
    CHOOSE x \in Range(table) : \A y \in Range(table) : y <= x

\* mutant: the weight is max - freq, the + 1 forgotten
InverseWeightsNoFloor(table, m) ==
    [i \in 1..m |-> MaxValue(table) - FreqGet(table, i)]

\* {i: max_freq - freq.get(i, 0) + 1 for i in range(1, m + 1)} (predict), and
\* the loops of predict_by_weighted_frequency that build the same dict
InverseWeights(table, m) ==
    [i \in 1..m |-> MaxValue(table) - FreqGet(table, i) + 1]

RECURSIVE SetToSortedList(_)
SetToSortedList(S) ==
    IF S = {} THEN <<>>
    ELSE LET x == CHOOSE y \in S : \A z \in S : y <= z
         IN  <<x>> \o SetToSortedList(S \ {x})

\* mutant: the first red_count symbols, nothing drawn
RandomSampleLowest(m, k) == { SetToSortedList(1..k) }

\* sorted(random.sample(range(1, red_max + 1), red_count)): every subset of
\* red_count symbols; ValueError when red_count > red_max or red_count < 0
RandomSampleResults(m, k) ==
    { SetToSortedList(S) : S \in { T \in SUBSET (1..m) : Cardinality(T) = k } }

Raised(e) ==
    [status |-> e, red_weights |-> <<>>, blue_weights |-> <<>>,
     blue_fallback |-> FALSE]

\* the random fallback of predict (511-514) and of
\* WeightedFrequencyAnalyzer.predict (450-451): the (red_balls, blue_ball)
\* pairs it can produce, or the exception
FallbackDraws(rc, rm, bm) ==
    IF rc > rm \/ rc < 0 \/ bm < 1 THEN {}
    ELSE RandomSampleResults(rm, rc) \X (1..bm)

\* LotteryPredictor.predict(data, red_count, red_max, blue_max): every way
\* the call can end
predict_outcomes(d, rc, rm, bm) ==
    IF d = <<>>
    THEN IF FallbackDraws(rc, rm, bm) = {}
         THEN { Raised("ValueError") }
         ELSE { [status |-> "ok",
                 prediction |-> [red_balls |-> x[1], blue_ball |-> x[2],
                                 predictor |-> "self.name",
                                 method |-> "global_frequency"],
                 red_weights |-> <<>>, blue_weights |-> <<>>,
                 blue_fallback |-> FALSE] :
                  x \in FallbackDraws(rc, rm, bm) }
    ELSE LET f == analyze(d)
         IN  IF f.status # "ok" THEN { Raised(f.status) }
             ELSE LET red_weights == InverseWeights(f.red, rm)
                      blue_weights == InverseWeights(f.blue, bm)
                  IN  { [status |-> "ok",
                         prediction |-> [red_balls |-> reds,
                                         blue_ball |-> blue.symbol,
                                         predictor |-> "self.name",
                                         method |-> "global_frequency"],
                         red_weights |-> red_weights,
                         blue_weights |-> blue_weights,
                         blue_fallback |-> blue.fallback] :
                          reds \in weighted_sample_results(red_weights, rc, rm),
                          blue \in weighted_sample_one_runs(blue_weights, bm) }

\* LotteryPredictor.predict_by_recent_data(data, red_count, red_max, blue_max,
\* recent_count), through WeightedFrequencyAnalyzer(data, recent_weight=3.0)
\* .predict_by_weighted_frequency: every way the call can end
predict_by_recent_data_outcomes(d, rc, rm, bm, recent) ==
    IF d = <<>>
    THEN IF FallbackDraws(rc, rm, bm) = {}
         THEN { Raised("ValueError") }
         ELSE { [status |-> "ok",
                 prediction |-> [red_balls |-> x[1], blue_ball |-> x[2],
                                 predictor |-> "self.name"],
                 red_weights |-> <<>>, blue_weights |-> <<>>,
                 blue_fallback |-> FALSE] :
                  x \in FallbackDraws(rc, rm, bm) }
    ELSE LET wf == analyze_weighted(d, DefaultRecentWeight, recent).result
         IN  IF wf.status # "ok" THEN { Raised(wf.status) }
             ELSE LET red_weights == InverseWeights(wf.red, rm)
                      blue_weights == InverseWeights(wf.blue, bm)
                  IN  { [status |-> "ok",
                         prediction |-> [red_balls |-> reds,
                                         blue_ball |-> blue.symbol,
                                         predictor |-> "self.name",
                                         method |-> "weighted_frequency",
                                         recent_count |-> recent],
                         analyzer_appended |->
                             << [red_balls |-> reds,
                                 blue_ball |-> blue.symbol,
                                 predictor |-> "analyzer.name-weighted",
                                 method |-> "weighted_frequency",
                                 recent_count |-> recent] >>,
                         red_weights |-> red_weights,
                         blue_weights |-> blue_weights,
                         blue_fallback |-> blue.fallback] :
                          reds \in weighted_sample_results(red_weights, rc, rm),
                          blue \in weighted_sample_one_runs(blue_weights, bm) }

\* the record lists handed to the predictor
PredictDataChoices ==
    { <<>>,
      << Record(<<1, 2, 3, 4, 5, 6>>, 2) >>,
      << Record(<<1, 2, 3, 4, 5, 6>>, 7), Record(<<3, 9, 17, 22, 30, 33>>, 16) >>,
      << Record(<<3, 9, 17, 22, 30, 33>>, 16), Record(<<1, 2, 3, 22, 30, 33>>, 7),
         Record(<<1, 2, 3, 4, 5, 6>>, 7) >>,
      << Record(<<1, 1, 2, 3, 4, 5>>, 16), Record(<<3, 9, 17, 22, 30, 33>>, 16) >>,
      << Record(<<1, 2, 3, 4, 5, 6>>, 7), Record(<<1, 2, 3, 4, 5, 6>>, 0) >> }

\* red_max, red_count (up to one more than red_max), blue_max arguments
RedMaxChoices == { 3 }
RedCountChoices == { 2, 4 }
BlueMaxChoices == { 0, 1, 2 }
\* recent_count: one record, or None (RECENT_COUNT)
RecentChoices == { 1, RECENT_COUNT }

\* the calls made on the predictor
PredictCalls ==
    [method : { "predict" }, data : PredictDataChoices,
     red_count : RedCountChoices, red_max : RedMaxChoices,
     blue_max : BlueMaxChoices]

PredictByRecentDataCalls ==
    [method : { "predict_by_recent_data" }, data : PredictDataChoices,
     red_count : RedCountChoices, red_max : RedMaxChoices,
     blue_max : BlueMaxChoices, recent_count : RecentChoices]

\* every call with every way it can end
PredictRuns ==
    UNION { { [call |-> c, out |-> o] :
                o \in predict_outcomes(c.data, c.red_count, c.red_max,
                                       c.blue_max) } :
            c \in PredictCalls }

PredictByRecentDataRuns ==
    UNION { { [call |-> c, out |-> o] :
                o \in predict_by_recent_data_outcomes(
                          c.data, c.red_count, c.red_max, c.blue_max,
                          c.recent_count) } :
            c \in PredictByRecentDataCalls }

\* mutant: self.prediction_history.insert(0, prediction)
InsertPredictionFirst(out) ==
    prediction_history' =
        IF out.status = "ok"
        THEN <<out.prediction>> \o prediction_history
        ELSE prediction_history

\* self.prediction_history.append(prediction), reached only when nothing raised
AppendPrediction(out) ==
    prediction_history' =
        IF out.status = "ok"
        THEN Append(prediction_history, out.prediction)
        ELSE prediction_history

\* `return prediction` / `return result`: the caller receives the dict
ReturnPrediction(out) ==
    p_returned' =
        IF out.status = "ok"
        THEN Append(p_returned, out.prediction)
        ELSE p_returned

\* what predict_by_weighted_frequency appended to the analyzer's own
\* prediction_history (365), as it was then: nothing on the fallback path
\* or when the call raised
AnalyzerAppended(out) ==
    IF "analyzer_appended" \in DOMAIN out THEN out.analyzer_appended ELSE <<>>

\* the dict as self.prediction_history.append received it
AppendedAs(out) ==
    p_appended_as' =
        IF out.status = "ok"
        THEN Append(p_appended_as, out.prediction)
        ELSE p_appended_as

\* get_history(): return self.prediction_history
get_history == prediction_history

Predict ==
    /\ Len(prediction_history) < MaxHistory
    /\ \E run \in PredictRuns :
          /\ p_call' = run.call
          /\ p_out' = run.out
          /\ AppendPrediction(run.out)
          /\ ReturnPrediction(run.out)
          /\ AppendedAs(run.out)
    \* predict creates no WeightedFrequencyAnalyzer; the one an earlier
    \* predict_by_recent_data created was a local of that call and is gone
    /\ w_history' = <<>>
    /\ w_appended_as' = <<>>
    /\ UNCHANGED <<analyzeVars, sampleVars, extVars>>

PredictByRecentData ==
    /\ Len(prediction_history) < MaxHistory
    /\ \E run \in PredictByRecentDataRuns :
          /\ p_call' = run.call
          /\ p_out' = run.out
          /\ AppendPrediction(run.out)
          /\ ReturnPrediction(run.out)
          /\ AppendedAs(run.out)
          \* result["predictor"] = self.name acts on the dict the analyzer
          \* has already appended to its own history
          /\ w_appended_as' = AnalyzerAppended(run.out)
          /\ w_history' = IF AnalyzerAppended(run.out) = <<>> THEN <<>>
                          ELSE << run.out.prediction >>
    /\ UNCHANGED <<analyzeVars, sampleVars, extVars>>

InitPredict == PredictIdle /\ AnalyzeIdle /\ SampleIdle /\ ExtIdle

NextPredict == Predict \/ PredictByRecentData

SpecPredict == InitPredict /\ [][NextPredict]_vars

-----------------------------------------------------------------------------
(* LotteryPredictor.predict_both_methods (579-605)                          *)

\* blue_max: int = 16, red_max: int = 33
DefaultBlueMax == 16
DefaultRedMax == 33

\* method1["method_name"] = ... / method2["method_name"] = ...: the key is set
\* on the dict the call returned, which is the object the history holds
WithMethodName(pred, name) ==
    [k \in DOMAIN pred \cup { "method_name" } |->
        IF k = "method_name" THEN name ELSE pred[k]]

\* self.predict(red_count, red_max, blue_max): the positional arguments land
\* on predict's parameters (data, red_count, red_max), blue_max keeps its
\* default. `if not data` holds for the int 0 only; any other int reaches
\* `for item in self.data` in analyze(): TypeError
predict_on_int(n, rc, rm) ==
    IF n = 0 THEN predict_outcomes(<<>>, rc, rm, DefaultBlueMax)
    ELSE { Raised("TypeError") }

\* predict_both_methods(data, red_count, red_max, blue_max): every way the
\* call can end, with the dicts it left in the history (as they are when the
\* call ends) and the returned method1 / method2
predict_both_methods_outcomes(d, rc, rm, bm) ==
    UNION {
        IF o1.status # "ok"
        THEN { [status |-> o1.status, appended |-> <<>>, appended_as |-> <<>>,
                w_as |-> <<>>, w_final |-> <<>>] }
        ELSE LET method1 == WithMethodName(o1.prediction, "method1")
             IN  { IF o2.status # "ok"
                   THEN [status |-> o2.status, appended |-> <<method1>>,
                         appended_as |-> << o1.prediction >>,
                         w_as |-> <<>>, w_final |-> <<>>]
                   ELSE LET method2 ==
                                WithMethodName(o2.prediction, "method2")
                        IN  [status |-> "ok", method1 |-> method1,
                             method2 |-> method2,
                             appended |-> <<method1, method2>>,
                             appended_as |-> << o1.prediction, o2.prediction >>,
                             w_as |-> AnalyzerAppended(o2),
                             w_final |-> IF AnalyzerAppended(o2) = <<>>
                                         THEN <<>> ELSE << method2 >>] :
                     o2 \in predict_by_recent_data_outcomes(
                                d, rc, rm, bm, RECENT_COUNT) } :
        o1 \in predict_on_int(rc, rm, bm) }

\* the record lists and (red_count, red_max, blue_max) handed to
\* predict_both_methods: the defaults, and small ranges with red_count 0
BothDataChoices ==
    { << Record(<<1, 2, 3, 4, 5, 6>>, 7) >>,
      << Record(<<1, 2, 3, 4, 5, 6>>, 7), Record(<<1, 2, 3, 4, 5, 6>>, 0) >> }

BothArgChoices ==
    { <<RedCount, DefaultRedMax, DefaultBlueMax>>, <<0, 2, 3>>, <<0, 3, 2>> }

PredictBothMethodsCalls ==
    { [method |-> "predict_both_methods", data |-> d, red_count |-> a[1],
       red_max |-> a[2], blue_max |-> a[3]] :
        d \in BothDataChoices, a \in BothArgChoices }

PredictBothMethodsRuns ==
    UNION { { [call |-> c, out |-> o] :
                o \in predict_both_methods_outcomes(
                          c.data, c.red_count, c.red_max, c.blue_max) } :
            c \in PredictBothMethodsCalls }

PredictBothMethods ==
    /\ Len(prediction_history) < MaxHistory
    /\ \E run \in PredictBothMethodsRuns :
          /\ p_call' = run.call
          /\ p_out' = run.out
          /\ prediction_history' = prediction_history \o run.out.appended
          /\ p_returned' = p_returned \o run.out.appended
          /\ p_appended_as' = p_appended_as \o run.out.appended_as
          /\ w_appended_as' = run.out.w_as
          /\ w_history' = run.out.w_final
    /\ UNCHANGED <<analyzeVars, sampleVars, extVars>>

NextPredictBoth == PredictBothMethods

SpecPredictBoth == InitPredict /\ [][NextPredictBoth]_vars

-----------------------------------------------------------------------------
(* Properties of the predictor, checked under SpecPredict *)

\* occurrences of the red symbol s in the records d, and of the blue symbol
OccurrencesRed(d, s) ==
    Cardinality({ ij \in (1..Len(d)) \X (1..RedCount) :
                    /\ ij[2] <= Len(d[ij[1]].red_balls)
                    /\ d[ij[1]].red_balls[ij[2]] = s })

OccurrencesBlue(d, s) ==
    Cardinality({ i \in 1..Len(d) : d[i].blue_ball = s })

\* the records the last call weighted as recent: none for predict, the last
\* recent_count (>= 1) records for predict_by_recent_data
RecentPart(c) ==
    IF c.method = "predict" THEN <<>>
    ELSE SubSeq(c.data, Len(c.data) - Min(c.recent_count, Len(c.data)) + 1,
                Len(c.data))

EarlyPart(c) ==
    SubSeq(c.data, 1, Len(c.data) - Len(RecentPart(c)))

\* the count the strategy of the last call gives a symbol: occurrences in
\* the early records plus recent_weight (3) times those in the recent ones
ExpectedRed(c, s) ==
    OccurrencesRed(EarlyPart(c), s)
        + DefaultRecentWeight * OccurrencesRed(RecentPart(c), s)

ExpectedBlue(c, s) ==
    OccurrencesBlue(EarlyPart(c), s)
        + DefaultRecentWeight * OccurrencesBlue(RecentPart(c), s)

MaxOfSet(S) == CHOOSE x \in S : \A y \in S : y <= x

\* the last call had records and returned, so it built its weight tables
BuiltWeights ==
    /\ p_call.method \in { "predict", "predict_by_recent_data" }
    /\ p_out.status = "ok"
    /\ p_call.data # <<>>

\* C6: in both strategies, for every symbol s of 1..max the weight is
\* (maximum count over all symbols) - count(s) + 1; so every weight is >= 1,
\* a symbol with the maximum count has weight 1 and a symbol with a strictly
\* lower count has a strictly higher weight.  The tables of a call do not
\* depend on the history, and every call can be the first to append: the
\* tables are compared on the calls that leave a history of one entry.
Thm_C6_InverseWeights ==
    (BuiltWeights /\ Len(prediction_history) <= 1) =>
        LET maxRed == MaxOfSet({ ExpectedRed(p_call, s) : s \in 1..RedRange })
            maxBlue == MaxOfSet({ ExpectedBlue(p_call, s) : s \in 1..BlueRange })
            rw == p_out.red_weights
            bw == p_out.blue_weights
        IN  /\ DOMAIN rw = 1..p_call.red_max
            /\ DOMAIN bw = 1..p_call.blue_max
            /\ \A s \in DOMAIN rw :
                   /\ rw[s] = maxRed - ExpectedRed(p_call, s) + 1
                   /\ rw[s] >= 1
                   /\ ExpectedRed(p_call, s) = maxRed => rw[s] = 1
                   /\ \A t \in DOMAIN rw :
                          ExpectedRed(p_call, s) < ExpectedRed(p_call, t)
                              => rw[s] > rw[t]
            /\ \A s \in DOMAIN bw :
                   /\ bw[s] = maxBlue - ExpectedBlue(p_call, s) + 1
                   /\ bw[s] >= 1
                   /\ ExpectedBlue(p_call, s) = maxBlue => bw[s] = 1
                   /\ \A t \in DOMAIN bw :
                          ExpectedBlue(p_call, s) < ExpectedBlue(p_call, t)
                              => bw[s] > bw[t]

\* a recency-weighted call whose early and recent records both count, with
\* a most frequent symbol of weight 1 and a rarer one of higher weight
Wit_C6_WeightedTable ==
    /\ BuiltWeights
    /\ p_call.method = "predict_by_recent_data"
    /\ Len(p_call.data) > p_call.recent_count
    /\ \E s, t \in DOMAIN p_out.red_weights :
           /\ p_out.red_weights[s] = 1
           /\ p_out.red_weights[t] > 1
           /\ ExpectedRed(p_call, t) < ExpectedRed(p_call, s)

\* C8: when red_count exceeds red_max, predict and predict_by_recent_data
\* surface an error; they never return a prediction holding fewer than
\* red_count red symbols.
Cex_C8_OverdrawRaises ==
    (p_call.method # "none" /\ p_call.red_count > p_call.red_max) =>
        p_out.status # "ok"

\* the last call was made without records (data None or empty) and with
\* arguments a draw exists for
NoRecordsCall ==
    /\ p_call.method \in { "predict", "predict_by_recent_data" }
    /\ p_call.data = <<>>
    /\ 0 <= p_call.red_count
    /\ p_call.red_count <= p_call.red_max
    /\ p_call.blue_max >= 1

\* the red_count-subsets of 1..red_max
RedSubsets(rm, rc) == { T \in SUBSET (1..rm) : Cardinality(T) = rc }

\* C11: without records predict and predict_by_recent_data do not fail: they
\* return red_count distinct red symbols of 1..red_max and one blue symbol of
\* 1..blue_max, drawn without weights, and every red_count-subset of
\* 1..red_max with every blue symbol is a possible result of either method
\* (the possible results do not depend on the predictor's state: they are
\* enumerated where the history is still empty).
Thm_C11_NoRecordsUniformDraw ==
    /\ NoRecordsCall =>
          /\ p_out.status = "ok"
          /\ p_out.red_weights = <<>> /\ p_out.blue_weights = <<>>
          /\ Len(p_out.prediction.red_balls) = p_call.red_count
          /\ Cardinality(Range(p_out.prediction.red_balls)) = p_call.red_count
          /\ Range(p_out.prediction.red_balls) \subseteq 1..p_call.red_max
          /\ p_out.prediction.blue_ball \in 1..p_call.blue_max
          /\ prediction_history # <<>>
          /\ prediction_history[Len(prediction_history)] = p_out.prediction
    /\ prediction_history = <<>> =>
          \A rm \in RedMaxChoices, bm \in BlueMaxChoices \ {0} :
             \A rc \in { k \in RedCountChoices : k <= rm } :
                \A T \in RedSubsets(rm, rc), b \in 1..bm :
                   /\ ENABLED ( /\ Predict
                                /\ p_call'.data = <<>>
                                /\ p_call'.red_count = rc
                                /\ p_call'.red_max = rm
                                /\ p_call'.blue_max = bm
                                /\ p_out'.status = "ok"
                                /\ Range(p_out'.prediction.red_balls) = T
                                /\ p_out'.prediction.blue_ball = b )
                   /\ ENABLED ( /\ PredictByRecentData
                                /\ p_call'.data = <<>>
                                /\ p_call'.red_count = rc
                                /\ p_call'.red_max = rm
                                /\ p_call'.blue_max = bm
                                /\ p_out'.status = "ok"
                                /\ Range(p_out'.prediction.red_balls) = T
                                /\ p_out'.prediction.blue_ball = b )

\* a recency-weighted call without records returned the subset {1, 3}, which
\* is not the lowest one
Wit_C11_NoRecordsPrediction ==
    /\ NoRecordsCall
    /\ p_call.method = "predict_by_recent_data"
    /\ p_out.status = "ok"
    /\ p_out.prediction.red_balls = <<1, 3>>
    /\ prediction_history[Len(prediction_history)] = p_out.prediction

\* C12: after any sequence of calls of predict and predict_by_recent_data,
\* get_history() holds exactly the predictions the successful calls returned,
\* the i-th entry being the one the i-th successful call returned: a
\* successful call appends its prediction at the end, a failed call leaves
\* the history as it was, and no entry is removed or reordered.
Thm_C12_HistoryIsReturnedInOrder ==
    [][ /\ get_history' = p_returned'
        /\ p_out'.status = "ok" =>
              get_history' = Append(get_history, p_out'.prediction)
        /\ p_out'.status # "ok" => get_history' = get_history
        /\ \A i \in 1..Len(get_history) :
              /\ i <= Len(get_history')
              /\ get_history'[i] = get_history[i] ]_vars

\* two successful calls of the two methods left two different predictions
Wit_C12_TwoEntriesInCallOrder ==
    /\ Len(get_history) = 2
    /\ get_history = p_returned
    /\ get_history[1] # get_history[2]
    /\ "method" \in DOMAIN get_history[1]
    /\ get_history[1].method = "global_frequency"
    /\ p_call.method = "predict_by_recent_data"
    /\ p_out.status = "ok"
    /\ get_history[2] = p_out.prediction

\* C13: for every data set and every blue_max >= 1, the blue_ball of a
\* prediction returned by predict or predict_by_recent_data lies in
\* 1..blue_max, and the `return 1` after the loop of _weighted_sample_one is
\* not what produced it.
Thm_C13_BlueInRange ==
    ( /\ p_call.method \in { "predict", "predict_by_recent_data" }
      /\ p_out.status = "ok"
      /\ p_call.blue_max >= 1 ) =>
        /\ p_out.prediction.blue_ball \in 1..p_call.blue_max
        /\ ~ p_out.blue_fallback

\* a weighted draw over two blue symbols returned the last of them
Wit_C13_LastBlueDrawn ==
    /\ BuiltWeights
    /\ p_call.blue_max = 2
    /\ p_out.blue_weights[1] # p_out.blue_weights[2]
    /\ p_out.prediction.blue_ball = 2
    /\ ~ p_out.blue_fallback

\* C14: predict_both_methods with non-empty valid data and the default
\* parameters returns two predictions, each with red_count distinct red
\* symbols of 1..red_max and a blue symbol of 1..blue_max, and both are
\* appended to the history.
Cex_C14_BothMethodsReturn ==
    ( /\ p_call.method = "predict_both_methods"
      /\ p_call.data # <<>>
      /\ \A i \in 1..Len(p_call.data) : WellFormedRecord(p_call.data[i])
      /\ p_call.red_count = RedCount
      /\ p_call.red_max = DefaultRedMax
      /\ p_call.blue_max = DefaultBlueMax ) =>
        /\ p_out.status = "ok"
        /\ \A pr \in { p_out.method1, p_out.method2 } :
              /\ Len(pr.red_balls) = p_call.red_count
              /\ Cardinality(Range(pr.red_balls)) = p_call.red_count
              /\ Range(pr.red_balls) \subseteq 1..p_call.red_max
              /\ pr.blue_ball \in 1..p_call.blue_max
        /\ Len(get_history) >= 2
        /\ get_history[Len(get_history) - 1] = p_out.method1
        /\ get_history[Len(get_history)] = p_out.method2

-----------------------------------------------------------------------------
(* TTSPlayer (screen-reader/src/tts.py): speak() and stop() on the main     *)
(* thread, _speak_thread on the playback thread, one action per statement   *)
(* that another thread can observe.                                         *)

\* speak() calls and stop() calls modelled
MaxSpeaks == 3
MaxStops == 1

\* characters str.strip() removes
Whitespace == { " " }

\* texts handed to speak(): None or "", blank, plain, padded
TextChoices == { <<>>, <<" ">>, <<"a">>, <<" ", "b", " ">> }

RECURSIVE StripLeft(_)
StripLeft(t) ==
    IF t # <<>> /\ Head(t) \in Whitespace THEN StripLeft(Tail(t)) ELSE t

RECURSIVE StripRight(_)
StripRight(t) ==
    IF t # <<>> /\ t[Len(t)] \in Whitespace
    THEN StripRight(SubSeq(t, 1, Len(t) - 1))
    ELSE t

\* text.strip()
Strip(t) == StripRight(StripLeft(t))

\* mutant: self._queue.pop(), the newest text
PopLast(q) == [item |-> q[Len(q)], rest |-> SubSeq(q, 1, Len(q) - 1)]

\* self._queue.pop(0): the oldest text leaves the list
Pop0(q) == [item |-> Head(q), rest |-> Tail(q)]

TtsFrame == UNCHANGED <<lotteryVars, selectorVars, fetcherVars, readerVars>>

\* speak(text): `if not text: return`, text = text.strip(),
\* `if not text: return`; otherwise on to `with self._lock`
SpeakCall ==
    /\ m_pc = "idle"
    /\ speak_calls < MaxSpeaks
    /\ speak_calls' = speak_calls + 1
    /\ \E text \in TextChoices :
          IF text = <<>> \/ Strip(text) = <<>>
          THEN UNCHANGED <<m_pc, m_text>>
          ELSE /\ m_pc' = "speak_lock"
               /\ m_text' = Strip(text)
    /\ UNCHANGED <<_queue, _running, lock, t_pc, t_text, stop_calls, accepted,
                   q_idx, t_idx, handed, handed_idx, stop_waiting,
                   after_stop>>
    /\ TtsFrame

\* speak(): `with self._lock:` entered
SpeakAcquire ==
    /\ m_pc = "speak_lock"
    /\ lock = "free"
    /\ lock' = "main"
    /\ m_pc' = "speak_append"
    /\ UNCHANGED <<_queue, _running, t_pc, t_text, m_text, speak_calls,
                   stop_calls, accepted, q_idx, t_idx, handed, handed_idx,
                   stop_waiting,
                   after_stop>>
    /\ TtsFrame

\* speak(): self._queue.append(text), and the lock released on leaving
SpeakAppend ==
    /\ m_pc = "speak_append"
    /\ _queue' = Append(_queue, m_text)
    /\ accepted' = Append(accepted, m_text)
    /\ q_idx' = Append(q_idx, Len(accepted) + 1)
    /\ lock' = "free"
    /\ m_pc' = "idle"
    /\ m_text' = <<>>
    /\ after_stop' = IF stop_calls > 0
                     THEN after_stop \cup { Len(accepted) + 1 }
                     ELSE after_stop
    /\ UNCHANGED <<_running, t_pc, t_text, speak_calls, stop_calls, t_idx,
                   handed, handed_idx, stop_waiting>>
    /\ TtsFrame

\* stop(): self._running = False, written without the lock
StopCall ==
    /\ m_pc = "idle"
    /\ stop_calls < MaxStops
    /\ stop_calls' = stop_calls + 1
    /\ _running' = FALSE
    /\ stop_waiting' = stop_waiting \cup Range(q_idx)
    /\ m_pc' = "stop_lock"
    /\ UNCHANGED <<_queue, lock, t_pc, t_text, m_text, speak_calls, accepted,
                   q_idx, t_idx, handed, handed_idx, after_stop>>
    /\ TtsFrame

\* stop(): `with self._lock:` entered
StopAcquire ==
    /\ m_pc = "stop_lock"
    /\ lock = "free"
    /\ lock' = "main"
    /\ m_pc' = "stop_clear"
    /\ UNCHANGED <<_queue, _running, t_pc, t_text, m_text, speak_calls,
                   stop_calls, accepted, q_idx, t_idx, handed, handed_idx,
                   stop_waiting,
                   after_stop>>
    /\ TtsFrame

\* stop(): self._queue.clear(), and the lock released on leaving
StopClear ==
    /\ m_pc = "stop_clear"
    /\ _queue' = <<>>
    /\ q_idx' = <<>>
    /\ lock' = "free"
    /\ m_pc' = "stop_purge"
    /\ UNCHANGED <<_running, t_pc, t_text, m_text, speak_calls, stop_calls,
                   accepted, t_idx, handed, handed_idx, stop_waiting,
                   after_stop>>
    /\ TtsFrame

\* stop(): try: voice.Speak("", 3) on a voice object of its own; except: pass
StopPurge ==
    /\ m_pc = "stop_purge"
    /\ m_pc' = "idle"
    /\ UNCHANGED <<_queue, _running, lock, t_pc, t_text, m_text, speak_calls,
                   stop_calls, accepted, q_idx, t_idx, handed, handed_idx,
                   stop_waiting,
                   after_stop>>
    /\ TtsFrame

\* mutant: `while self._running and self._queue:`
ThreadExitsWhenIdle ==
    /\ t_pc = "while"
    /\ t_pc' = IF _running /\ _queue # <<>> THEN "lock" ELSE "exited"
    /\ UNCHANGED <<_queue, _running, lock, t_text, m_pc, m_text, speak_calls,
                   stop_calls, accepted, q_idx, t_idx, handed, handed_idx,
                   stop_waiting, after_stop>>
    /\ TtsFrame

\* _speak_thread: `while self._running:` evaluated, without the lock
ThreadCheckRunning ==
    /\ t_pc = "while"
    /\ t_pc' = IF _running THEN "lock" ELSE "exited"
    /\ UNCHANGED <<_queue, _running, lock, t_text, m_pc, m_text, speak_calls,
                   stop_calls, accepted, q_idx, t_idx, handed, handed_idx,
                   stop_waiting,
                   after_stop>>
    /\ TtsFrame

\* _speak_thread: `with self._lock:` entered
ThreadAcquire ==
    /\ t_pc = "lock"
    /\ lock = "free"
    /\ lock' = "player"
    /\ t_pc' = "locked"
    /\ UNCHANGED <<_queue, _running, t_text, m_pc, m_text, speak_calls,
                   stop_calls, accepted, q_idx, t_idx, handed, handed_idx,
                   stop_waiting,
                   after_stop>>
    /\ TtsFrame

\* _speak_thread: `if self._queue: text = self._queue.pop(0) else: text = None`,
\* the lock released on leaving, then `if text:` chooses the branch
ThreadPop ==
    /\ t_pc = "locked"
    /\ IF _queue # <<>>
       THEN /\ t_text' = Pop0(_queue).item
            /\ _queue' = Pop0(_queue).rest
            /\ t_idx' = Pop0(q_idx).item
            /\ q_idx' = Pop0(q_idx).rest
            /\ t_pc' = "speak"
       ELSE /\ t_text' = <<>>
            /\ t_idx' = 0
            /\ t_pc' = "sleep"
            /\ UNCHANGED <<_queue, q_idx>>
    /\ lock' = "free"
    /\ UNCHANGED <<_running, m_pc, m_text, speak_calls, stop_calls, accepted,
                   handed, handed_idx, stop_waiting,
                   after_stop>>
    /\ TtsFrame

\* _speak_thread: the try block hands text to the speech engine
\* (_init_voice, voice selection, voice.Speak(text)); it returns when the
\* engine has spoken, or an exception is caught and printed
ThreadSpeak ==
    /\ t_pc = "speak"
    /\ handed' = Append(handed, t_text)
    /\ handed_idx' = Append(handed_idx, t_idx)
    /\ t_idx' = 0
    /\ t_pc' = "while"
    /\ UNCHANGED <<_queue, _running, lock, t_text, m_pc, m_text, speak_calls,
                   stop_calls, accepted, q_idx, stop_waiting,
                   after_stop>>
    /\ TtsFrame

\* _speak_thread: time.sleep(0.1)
ThreadSleep ==
    /\ t_pc = "sleep"
    /\ t_pc' = "while"
    /\ UNCHANGED <<_queue, _running, lock, t_text, m_pc, m_text, speak_calls,
                   stop_calls, accepted, q_idx, t_idx, handed, handed_idx,
                   stop_waiting,
                   after_stop>>
    /\ TtsFrame

\* no lottery object in use
LotteryIdle == AnalyzeIdle /\ SampleIdle /\ PredictIdle

InitTTS == TTSInit /\ LotteryIdle /\ SelectorInit /\ FetcherInit /\ ReaderInit

NextTTS ==
    \/ SpeakCall \/ SpeakAcquire \/ SpeakAppend
    \/ StopCall \/ StopAcquire \/ StopClear \/ StopPurge
    \/ ThreadCheckRunning \/ ThreadAcquire \/ ThreadPop \/ ThreadSpeak
    \/ ThreadSleep

SpecTTS == InitTTS /\ [][NextTTS]_vars

-----------------------------------------------------------------------------
(* Properties of the speech queue, checked under SpecTTS *)

\* the text the playback thread has taken and not yet handed over
InHand == IF t_pc = "speak" THEN <<t_idx>> ELSE <<>>

\* C15: under every interleaving of speak() with the playback thread, the
\* texts are handed to the speech engine in the order speak() appended them,
\* each at most once; while stop() has not been called every appended text
\* is handed over, held by the thread or still queued; and a thread is at a
\* statement that reads or writes the queue only while it holds the lock.
Thm_C15_QueueOrderUnderLock ==
    /\ Len(handed) = Len(handed_idx)
    /\ \A i \in 1..Len(handed_idx) :
          /\ handed_idx[i] \in 1..Len(accepted)
          /\ handed[i] = accepted[handed_idx[i]]
          /\ \A j \in 1..Len(handed_idx) :
                i < j => handed_idx[i] < handed_idx[j]
    /\ stop_calls = 0 =>
          handed_idx \o InHand \o q_idx = [i \in 1..Len(accepted) |-> i]
    /\ t_pc = "locked" => lock = "player"
    /\ m_pc \in { "speak_append", "stop_clear" } => lock = "main"
    /\ Len(q_idx) = Len(_queue)
    /\ \A i \in 1..Len(_queue) : _queue[i] = accepted[q_idx[i]]

\* speak() appended a second text while the first was still queued, and the
\* engine then received both, in that order
Wit_C15_TwoTextsInOrder ==
    /\ stop_calls = 0
    /\ Len(handed) = 2
    /\ handed[1] # handed[2]
    /\ handed = SubSeq(accepted, 1, 2)
    /\ Len(accepted) = 3
    /\ Len(_queue) = 1

\* C16: stop() discards the queued messages: no text that was waiting in the
\* queue when stop() was called is handed to the speech engine afterwards.
Cex_C16_StopDiscardsQueued ==
    Range(handed_idx) \cap stop_waiting = {}

-----------------------------------------------------------------------------
(* RegionSelector (screen-reader/src/selector.py): the mouse callback and   *)
(* the key handling of select_region()                                      *)

\* mouse positions are 0..MaxCoord on both axes
MaxCoord == 2

Coord == 0..MaxCoord

\* min(a, b) and abs(a)
PyMin(a, b) == IF b < a THEN b ELSE a
PyAbs(a) == IF a < 0 THEN 0 - a ELSE a

\* mutant: the start corner and the signed extent, nothing normalised
get_roi_coordinates_raw(c) ==
    <<c.ix, c.iy, c.x_end - c.ix, c.y_end - c.iy>>

\* _get_roi_coordinates(): (x_start, y_start, width, height)
get_roi_coordinates(c) ==
    <<PyMin(c.ix, c.x_end), PyMin(c.iy, c.y_end),
      PyAbs(c.x_end - c.ix), PyAbs(c.y_end - c.iy)>>

SelectorFrame == UNCHANGED <<lotteryVars, ttsVars, fetcherVars, readerVars>>

\* _mouse_callback, cv2.EVENT_LBUTTONDOWN
LButtonDown ==
    /\ sel_pc = "selecting"
    /\ \E x \in Coord, y \in Coord :
          /\ last_event' = [type |-> "down", x |-> x, y |-> y]
          /\ coords' = IF ~ coords.drawing
                       THEN [ix |-> x, iy |-> y, x_end |-> x, y_end |-> y,
                             drawing |-> TRUE]
                       ELSE coords
    /\ UNCHANGED <<sel_pc, region>>
    /\ SelectorFrame

\* mutant: the end point follows the mouse whether a drag is on or not
MouseMoveAlways ==
    /\ sel_pc = "selecting"
    /\ \E x \in Coord, y \in Coord :
          /\ last_event' = [type |-> "move", x |-> x, y |-> y]
          /\ coords' = [coords EXCEPT !.x_end = x, !.y_end = y]
    /\ UNCHANGED <<sel_pc, region>>
    /\ SelectorFrame

\* _mouse_callback, cv2.EVENT_MOUSEMOVE
MouseMove ==
    /\ sel_pc = "selecting"
    /\ \E x \in Coord, y \in Coord :
          /\ last_event' = [type |-> "move", x |-> x, y |-> y]
          /\ coords' = IF coords.drawing
                       THEN [coords EXCEPT !.x_end = x, !.y_end = y]
                       ELSE coords
    /\ UNCHANGED <<sel_pc, region>>
    /\ SelectorFrame

\* _mouse_callback, cv2.EVENT_LBUTTONUP
LButtonUp ==
    /\ sel_pc = "selecting"
    /\ \E x \in Coord, y \in Coord :
          /\ last_event' = [type |-> "up", x |-> x, y |-> y]
          /\ coords' = [coords EXCEPT !.drawing = FALSE, !.x_end = x,
                                      !.y_end = y]
    /\ UNCHANGED <<sel_pc, region>>
    /\ SelectorFrame

\* select_region(): key 27 (Esc): return None
KeyEsc ==
    /\ sel_pc = "selecting"
    /\ sel_pc' = "cancelled"
    /\ last_event' = [type |-> "key", x |-> -1, y |-> -1]
    /\ UNCHANGED <<coords, region>>
    /\ SelectorFrame

\* select_region(): key 13 or "c": with all four coordinates set, leave the
\* loop and return self._get_roi_coordinates(); otherwise keep looping
KeyConfirm ==
    /\ sel_pc = "selecting"
    /\ IF /\ coords.ix # -1 /\ coords.iy # -1
          /\ coords.x_end # -1 /\ coords.y_end # -1
       THEN /\ sel_pc' = "confirmed"
            /\ region' = get_roi_coordinates(coords)
       ELSE UNCHANGED <<sel_pc, region>>
    /\ last_event' = [type |-> "key", x |-> -1, y |-> -1]
    /\ UNCHANGED coords
    /\ SelectorFrame

InitSelector ==
    SelectorInit /\ TTSInit /\ LotteryIdle /\ FetcherInit /\ ReaderInit

NextSelector ==
    LButtonDown \/ MouseMove \/ LButtonUp \/ KeyEsc \/ KeyConfirm

SpecSelector == InitSelector /\ [][NextSelector]_vars

-----------------------------------------------------------------------------
(* Properties of the selector, checked under SpecSelector *)

\* the drag of c made in the opposite direction
Reversed(c) ==
    [c EXCEPT !.ix = c.x_end, !.iy = c.y_end, !.x_end = c.ix, !.y_end = c.iy]

\* C17: the region select_region() returns is normalised: its corner is the
\* smaller of the start and end coordinate on each axis, its width and
\* height are the distances between them and never negative, and the drag
\* made in the opposite direction gives the same region.
Thm_C17_RegionNormalised ==
    sel_pc = "confirmed" =>
        LET x == region[1]
            y == region[2]
            width == region[3]
            height == region[4]
        IN  /\ Len(region) = 4
            /\ width >= 0 /\ height >= 0
            /\ { x, x + width } = { coords.ix, coords.x_end }
            /\ { y, y + height } = { coords.iy, coords.y_end }
            /\ region = get_roi_coordinates(Reversed(coords))

\* a region confirmed after dragging from the lower right to the upper left
Wit_C17_DragUpLeft ==
    /\ sel_pc = "confirmed"
    /\ coords.x_end < coords.ix
    /\ coords.y_end < coords.iy
    /\ region = <<coords.x_end, coords.y_end, coords.ix - coords.x_end, 1>>

-----------------------------------------------------------------------------
(* DataFetcher.update (lottery_test/data_fetcher.py 122-154) with           *)
(* _parse_response (93-120) and save (174-180)                              *)

\* update() calls modelled
MaxUpdates == 3

\* item.get('issue', ''): the JSON value of the key, a string or a number,
\* or '' when the key is absent
StrIssue(t) == [kind |-> "str", text |-> t]
IntIssue(t) == [kind |-> "int", text |-> t]

\* a parsed item of the API response
ApiItem(issue) ==
    [issue |-> issue, red_balls |-> <<1, 2, 3, 4, 5, 6>>, blue_ball |-> 7,
     date |-> "2024-01-02"]

\* what fetch_latest() can return: [] (request or parsing failed), issues
\* newest first, one item without an issue, a numeric issue, one issue twice
ApiResponses ==
    { <<>>,
      << ApiItem(StrIssue("2024001")) >>,
      << ApiItem(StrIssue("2024002")), ApiItem(StrIssue("2024001")) >>,
      << ApiItem(StrIssue("2024003")), ApiItem(StrIssue("2024002")) >>,
      << ApiItem(StrIssue("")) >>,
      << ApiItem(IntIssue("2024001")) >>,
      << ApiItem(StrIssue("2024003")), ApiItem(StrIssue("2024003")) >> }

\* f"{item['issue']},{red},{item['blue_ball']},{item['date']}\n": the line
\* save() writes, by its comma-separated fields; str() of a number is its
\* digits
FormatLine(item) ==
    [issue |-> item.issue.text, red_balls |-> item.red_balls,
     blue_ball |-> item.blue_ball, date |-> item.date]

\* line.strip().split(',')[0] of every line after the header, kept when
\* truthy: the set local_issues
LocalIssues(lines) ==
    { lines[i].issue : i \in { j \in 1..Len(lines) : lines[j].issue # "" } }

\* item['issue'] not in local_issues: a number equals no string of the set
IssueIsNew(issue, local_issues) ==
    ~ (issue.kind = "str" /\ issue.text \in local_issues)

\* [item for item in web_data if item['issue'] not in local_issues]
RECURSIVE NewData(_, _)
NewData(web_data, local_issues) ==
    IF web_data = <<>> THEN <<>>
    ELSE (IF IssueIsNew(Head(web_data).issue, local_issues)
          THEN << Head(web_data) >> ELSE <<>>)
         \o NewData(Tail(web_data), local_issues)

\* one response holds the same issue (as written to the file) twice
RepeatsIssue(resp) ==
    \E i, j \in 1..Len(resp) :
        i < j /\ resp[i].issue.text = resp[j].issue.text

FetcherFrame == UNCHANGED <<lotteryVars, ttsVars, selectorVars, readerVars>>

\* update(): read local_issues, fetch, `if not web_data: return 0`, filter,
\* save(new_data) appends the lines, return len(new_data)
Update ==
    /\ update_calls < MaxUpdates
    /\ update_calls' = update_calls + 1
    /\ \E web_data \in ApiResponses :
          LET new_data == NewData(web_data, LocalIssues(csv_lines))
              written == [i \in 1..Len(new_data) |-> FormatLine(new_data[i])]
          IN  /\ u_response' = web_data
              /\ u_prev_response' = u_response
              /\ u_appended' = written
              /\ csv_lines' = csv_lines \o written
              /\ u_return' = Len(new_data)
              /\ no_repeat' = (no_repeat /\ ~ RepeatsIssue(web_data))
    /\ UNCHANGED fetched_all
    /\ FetcherFrame

\* what fetch_all() can return: [] (request or parsing failed), or the whole
\* history as the API lists it, all_data[0] the last issue and all_data[-1]
\* the first
AllResponses ==
    { <<>>,
      << ApiItem(StrIssue("2024001")) >>,
      << ApiItem(StrIssue("2024002")), ApiItem(StrIssue("2024001")) >> }

\* fetch_and_save_all(): the file rewritten with its header only, then
\* all_data = self.fetch_all() and, when not empty, self.save(all_data)
FetchAndSaveAll ==
    /\ ~ fetched_all
    /\ update_calls = 0
    /\ \E all_data \in AllResponses :
          csv_lines' = [i \in 1..Len(all_data) |-> FormatLine(all_data[i])]
    /\ fetched_all' = TRUE
    /\ UNCHANGED <<update_calls, u_response, u_prev_response, u_appended,
                   u_return, no_repeat>>
    /\ FetcherFrame

\* line.strip().split(','): issue, six red balls, blue ball, date
Parts(line) ==
    <<line.issue>> \o line.red_balls \o <<line.blue_ball, line.date>>

\* the lines load() turns into records
HasNineParts(line) == Len(Parts(line)) >= 9

\* load(): every line after the header with at least 9 fields, in file order
load(lines) ==
    LET kept == SelectSeq(lines, HasNineParts)
    IN  [i \in 1..Len(kept) |->
            [issue |-> Parts(kept[i])[1],
             red_balls |-> SubSeq(Parts(kept[i]), 2, 7),
             blue_ball |-> Parts(kept[i])[8],
             date |-> Parts(kept[i])[9]]]

\* get_local_latest_issue(): the first field of the last line when the file
\* has more than its header, otherwise None
get_local_latest_issue(lines) ==
    IF Len(lines) > 0 THEN Parts(lines[Len(lines)])[1] ELSE "None"

InitFetcher ==
    FetcherInit /\ LotteryIdle /\ TTSInit /\ SelectorInit /\ ReaderInit

NextFetcher == FetchAndSaveAll \/ Update

SpecFetcher == InitFetcher /\ [][NextFetcher]_vars

-----------------------------------------------------------------------------
(* Properties of the data file, checked under SpecFetcher *)

\* the file as the last update() found it
LinesBefore == SubSeq(csv_lines, 1, Len(csv_lines) - Len(u_appended))

\* C18: update() appends only records whose issue number is not already
\* stored and returns the number appended; so, when no API response repeats
\* an issue, no issue number appears twice in the file, and a second
\* update() with the same API response appends nothing and returns 0.
Cex_C18_UpdateAppendsOnlyNew ==
    /\ u_return = Len(u_appended)
    /\ \A i \in 1..Len(u_appended) :
          \A j \in 1..Len(LinesBefore) :
             LinesBefore[j].issue # u_appended[i].issue
    /\ no_repeat =>
          \A i, j \in 1..Len(csv_lines) :
             i < j => csv_lines[i].issue # csv_lines[j].issue
    /\ (no_repeat /\ update_calls >= 2 /\ u_response = u_prev_response) =>
          (u_appended = <<>> /\ u_return = 0)

-----------------------------------------------------------------------------
(* Further properties of the counting passes, checked under SpecAnalyze *)

Thm_C20_WeightedCount ==
    weighted_freq.status = "ok" =>
        /\ \A s \in 1..RedRange :
              FreqGet(weighted_freq.red, s) =
                  1 * OccurrencesRed(early_data, s)
                      + recent_weight * OccurrencesRed(recent_data, s)
        /\ \A s \in 1..BlueRange :
              FreqGet(weighted_freq.blue, s) =
                  1 * OccurrencesBlue(early_data, s)
                      + recent_weight * OccurrencesBlue(recent_data, s)

\* the repeated record with recent_weight 3: the last MaxRecords records
\* count three times, the ones before them once
Wit_C20_EarlyAndRecent ==
    /\ data = Repeat(Record(<<1, 2, 3, 4, 5, 6>>, 7), ExampleRepeat)
    /\ recent_weight = DefaultRecentWeight
    /\ recent_arg = MaxRecords
    /\ weighted_freq.status = "ok"
    /\ Len(early_data) = ExampleRepeat - MaxRecords
    /\ Len(recent_data) = MaxRecords
    /\ weighted_freq.red[1] =
           (ExampleRepeat - MaxRecords) + DefaultRecentWeight * MaxRecords

-----------------------------------------------------------------------------
(* Further properties of the predictor *)

\* C21: a prediction is never modified after it has been appended to a
\* history list: every entry of the predictor's history, and of the history
\* of the analyzer predict_by_recent_data works through, has exactly the
\* keys and values it had when it was appended.
Cex_C21_EntriesKeptAsAppended ==
    /\ prediction_history = p_appended_as
    /\ w_history = w_appended_as

-----------------------------------------------------------------------------
(* ScreenReader.run(): the monitoring loop of main.py against the playback *)
(* thread of its TTSPlayer, and OCREngine.get_text_diff                     *)

\* iterations of the monitoring loop explored
MaxIters == 3

\* what ocr.extract_from_region() returns: nothing, a first text, the same
\* text with a space between the characters, two texts growing it, one
\* character, and a text that replaces it
ReadingChoices ==
    { <<>>,
      <<"a">>,
      <<"a", "b">>,
      <<"a", " ", "b">>,
      <<"a", "b", "c">>,
      <<"a", "b", "c", "d", "e">>,
      <<"x", "y", "z">> }

\* exceptions raised inside the try block of run()
ExceptionChoices == { "KeyboardInterrupt", "Exception" }

\* text.replace(' ', '')
RECURSIVE RemoveSpaces(_)
RemoveSpaces(t) ==
    IF t = <<>> THEN <<>>
    ELSE IF Head(t) = " " THEN RemoveSpaces(Tail(t))
    ELSE <<Head(t)>> \o RemoveSpaces(Tail(t))

\* text.replace(' ', '').strip()
Normalise(t) == Strip(RemoveSpaces(t))

\* text[n:]
SliceFrom(t, n) == SubSeq(t, n + 1, Len(t))

\* new_text.startswith(old_text)
StartsWith(new_text, old_text) ==
    /\ Len(old_text) <= Len(new_text)
    /\ SubSeq(new_text, 1, Len(old_text)) = old_text

\* run(): new_content, from self.last_text and the changed text
new_content(last, text) ==
    IF last = <<>> THEN text ELSE Strip(SliceFrom(text, Len(last)))

\* OCREngine.get_text_diff(old_text, new_text)
get_text_diff(old_text, new_text) ==
    IF new_text = <<>> THEN <<>>
    ELSE IF old_text = <<>> THEN new_text
    ELSE IF StartsWith(new_text, old_text)
         THEN Strip(SliceFrom(new_text, Len(old_text)))
         ELSE new_text

\* the except clauses of run(): KeyboardInterrupt, then Exception
Caught(e) == e \in { "KeyboardInterrupt", "Exception" }

ReaderFrame == UNCHANGED <<lotteryVars, selectorVars, fetcherVars>>

\* run() up to the loop: `if self.region is None: ... return`, otherwise
\* self.is_running = True
RunEnter ==
    /\ r_pc = "constructed"
    /\ \E has_region \in BOOLEAN :
          IF has_region
          THEN /\ is_running' = TRUE
               /\ r_pc' = "while"
          ELSE /\ r_pc' = "no_region"
               /\ UNCHANGED is_running
    /\ UNCHANGED <<last_text, r_text, r_prev, r_delta, r_changed, r_iters,
                   r_append_only, r_raised, r_escaped>>
    /\ UNCHANGED ttsVars
    /\ ReaderFrame

\* `while self.is_running:`
LoopTest ==
    /\ r_pc = "while"
    /\ r_iters < MaxIters
    /\ r_pc' = IF is_running THEN "ocr" ELSE "finally"
    /\ r_iters' = r_iters + 1
    /\ UNCHANGED <<is_running, last_text, r_text, r_prev, r_delta, r_changed,
                   r_append_only, r_raised, r_escaped>>
    /\ UNCHANGED ttsVars
    /\ ReaderFrame

\* one reading: extract_from_region, normalisation, the comparison with
\* last_text, new_content, and either the call of self.tts.speak (which
\* strips the text and goes on to its `with self._lock`) or the skip followed
\* by self.last_text = text
ReadAndCompare ==
    /\ r_pc = "ocr"
    /\ \E raw \in ReadingChoices :
          LET text == Normalise(raw)
              delta == new_content(last_text, text)
          IN  IF raw # <<>> /\ text # <<>> /\ text # last_text
              THEN /\ r_text' = text
                   /\ r_prev' = last_text
                   /\ r_delta' = delta
                   /\ r_changed' = TRUE
                   /\ r_append_only' = (r_append_only
                                        /\ StartsWith(text, last_text))
                   /\ IF delta # <<>> /\ Len(delta) >= 2
                      THEN /\ m_pc' = "speak_lock"
                           /\ m_text' = Strip(delta)
                           /\ speak_calls' = speak_calls + 1
                           /\ r_pc' = "speaking"
                           /\ UNCHANGED last_text
                      ELSE /\ last_text' = text
                           /\ r_pc' = "sleep"
                           /\ UNCHANGED <<m_pc, m_text, speak_calls>>
              ELSE /\ r_pc' = "sleep"
                   /\ UNCHANGED <<last_text, r_text, r_prev, r_delta,
                                  r_changed, r_append_only, m_pc, m_text,
                                  speak_calls>>
    /\ UNCHANGED <<is_running, r_iters, r_raised, r_escaped>>
    /\ UNCHANGED <<_queue, _running, lock, t_pc, t_text, stop_calls, accepted,
                   q_idx, t_idx, handed, handed_idx, stop_waiting,
                   after_stop>>
    /\ ReaderFrame

\* speak() has returned: self.last_text = text
UpdateLastText ==
    /\ r_pc = "speaking"
    /\ m_pc = "idle"
    /\ last_text' = r_text
    /\ r_pc' = "sleep"
    /\ UNCHANGED <<is_running, r_text, r_prev, r_delta, r_changed, r_iters,
                   r_append_only, r_raised, r_escaped>>
    /\ UNCHANGED ttsVars
    /\ ReaderFrame

\* time.sleep(self.check_interval)
Sleep ==
    /\ r_pc = "sleep"
    /\ r_pc' = "while"
    /\ UNCHANGED <<is_running, last_text, r_text, r_prev, r_delta, r_changed,
                   r_iters, r_append_only, r_raised, r_escaped>>
    /\ UNCHANGED ttsVars
    /\ ReaderFrame

\* an exception inside the try block: Ctrl+C at any statement, an Exception
\* in capture and OCR or in speak(); a `with self._lock` being left releases
\* the lock; the matching except clause prints, the rest is left to finally
Raise ==
    /\ r_pc \in { "while", "ocr", "speaking", "sleep" }
    /\ \E e \in ExceptionChoices :
          /\ (e = "Exception") =>
                 (r_pc = "ocr" \/ (r_pc = "speaking" /\ m_pc # "idle"))
          /\ r_raised' = e
          /\ r_escaped' = IF Caught(e) THEN "none" ELSE e
    /\ lock' = IF lock = "main" THEN "free" ELSE lock
    /\ m_pc' = "idle"
    /\ m_text' = <<>>
    /\ r_pc' = "finally"
    /\ UNCHANGED <<is_running, last_text, r_text, r_prev, r_delta, r_changed,
                   r_iters, r_append_only>>
    /\ UNCHANGED <<_queue, _running, t_pc, t_text, speak_calls, stop_calls,
                   accepted, q_idx, t_idx, handed, handed_idx, stop_waiting,
                   after_stop>>
    /\ ReaderFrame

\* mutant: stop() leaves the monitoring flag alone
ReaderStopKeepsFlag ==
    /\ r_pc = "finally"
    /\ _running' = FALSE
    /\ stop_calls' = stop_calls + 1
    /\ stop_waiting' = stop_waiting \cup Range(q_idx)
    /\ m_pc' = "stop_lock"
    /\ r_pc' = "stopping"
    /\ UNCHANGED <<is_running, last_text, r_text, r_prev, r_delta, r_changed,
                   r_iters, r_append_only, r_raised, r_escaped>>
    /\ UNCHANGED <<_queue, lock, t_pc, t_text, m_text, speak_calls, accepted,
                   q_idx, t_idx, handed, handed_idx, after_stop>>
    /\ ReaderFrame

\* finally: self.stop(): self.is_running = False, then self.tts.stop() up to
\* its `with self._lock` (self._running = False, written without the lock)
ReaderStop ==
    /\ r_pc = "finally"
    /\ is_running' = FALSE
    /\ _running' = FALSE
    /\ stop_calls' = stop_calls + 1
    /\ stop_waiting' = stop_waiting \cup Range(q_idx)
    /\ m_pc' = "stop_lock"
    /\ r_pc' = "stopping"
    /\ UNCHANGED <<last_text, r_text, r_prev, r_delta, r_changed, r_iters,
                   r_append_only, r_raised, r_escaped>>
    /\ UNCHANGED <<_queue, lock, t_pc, t_text, m_text, speak_calls, accepted,
                   q_idx, t_idx, handed, handed_idx, after_stop>>
    /\ ReaderFrame

\* self.tts.stop() has returned: print, and run() returns
RunReturn ==
    /\ r_pc = "stopping"
    /\ m_pc = "idle"
    /\ r_pc' = "returned"
    /\ UNCHANGED <<is_running, last_text, r_text, r_prev, r_delta, r_changed,
                   r_iters, r_append_only, r_raised, r_escaped>>
    /\ UNCHANGED ttsVars
    /\ ReaderFrame

InitReader == ReaderInit /\ TTSInit /\ LotteryIdle /\ SelectorInit /\ FetcherInit

NextReader ==
    \/ RunEnter \/ LoopTest \/ ReadAndCompare \/ UpdateLastText \/ Sleep
    \/ Raise \/ ReaderStop \/ RunReturn
    \/ SpeakAcquire \/ SpeakAppend
    \/ StopAcquire \/ StopClear \/ StopPurge
    \/ ThreadCheckRunning \/ ThreadAcquire \/ ThreadPop \/ ThreadSpeak
    \/ ThreadSleep

SpecReader == InitReader /\ [][NextReader]_vars

-----------------------------------------------------------------------------
(* Properties of the monitoring loop, checked under SpecReader *)

\* the texts of a list, joined
RECURSIVE Joined(_)
Joined(ts) == IF ts = <<>> THEN <<>> ELSE Head(ts) \o Joined(Tail(ts))

\* C22: for every previous reading and changed current reading, the delta
\* run() computes is OCREngine.get_text_diff of the two
Cex_C22_DeltaIsTextDiff ==
    r_changed => r_delta = get_text_diff(r_prev, r_text)

\* C23: while the readings only grow by appending, every appended chunk has
\* been queued once the iteration that saw it is over: the queued texts,
\* joined, are the text read so far
Cex_C23_AppendedChunksQueued ==
    (r_append_only /\ r_pc \in { "sleep", "while" })
        => Joined(accepted) = last_text

\* C26: whenever run() has returned after entering the monitoring loop, by
\* Ctrl+C or by an exception in capture, OCR or queuing, stop() has been
\* executed: is_running is False, the TTS running flag is False, the TTS
\* queue is empty, and no exception has escaped run()
Thm_C26_ReturnedMeansStopped ==
    (r_pc = "returned") =>
        /\ stop_calls > 0
        /\ is_running = FALSE
        /\ _running = FALSE
        /\ _queue = <<>>
        /\ r_escaped = "none"

\* run() has returned after an exception ended a loop with texts still queued
Wit_C26_ReturnedAfterException ==
    /\ r_pc = "returned"
    /\ r_raised = "Exception"
    /\ stop_waiting # {}

-----------------------------------------------------------------------------
(* The playback thread under fair scheduling *)

\* one step of the playback thread (a daemon thread started by __init__)
ThreadStep ==
    \/ ThreadCheckRunning \/ ThreadAcquire \/ ThreadPop \/ ThreadSpeak
    \/ ThreadSleep

\* the playback thread keeps being scheduled, its engine call and its sleep
\* return, and a thread inside `with self._lock` leaves it
FairTTS ==
    /\ WF_vars(ThreadStep)
    /\ WF_vars(SpeakAppend)
    /\ WF_vars(StopClear)

SpecTTSFair == SpecTTS /\ FairTTS

\* C24: while stop() is never called, every text speak() accepted is
\* eventually taken from the queue and handed to the speech engine
Thm_C24_AcceptedEventuallyHanded ==
    \A i \in 1..MaxSpeaks :
        (Len(accepted) >= i /\ stop_calls = 0)
            ~> (i \in Range(handed_idx) \/ stop_calls > 0)

\* without a stop(), two texts were accepted and both reached the engine
Wit_C24_AllHandedWithoutStop ==
    /\ stop_calls = 0
    /\ Len(accepted) >= 2
    /\ Len(handed_idx) = Len(accepted)

\* after stop() the playback thread eventually leaves its loop
ThreadExitsAfterStop == (stop_calls > 0) ~> (t_pc = "exited")

\* C25: a text passed to speak() after stop() has been called is never handed
\* to the speech engine
Cex_C25_NothingSpokenAfterStop == Range(handed_idx) \cap after_stop = {}

-----------------------------------------------------------------------------
(* The mouse state machine of the selector, checked under SpecSelector *)

\* the drag start (ix, iy) of c
DragStart(c) == <<c.ix, c.iy>>

\* C27: a mouse-move while no drag is in progress leaves every selection
\* coordinate unchanged; the drag start (ix, iy) changes only on a
\* left-button-down received while not dragging; a left-button-up always ends
\* the drag and fixes the end point at its position
Thm_C27_MouseStateMachine ==
    [][ /\ (last_event'.type = "move" /\ ~ coords.drawing)
            => coords' = coords
        /\ (DragStart(coords') # DragStart(coords))
            => (last_event'.type = "down" /\ ~ coords.drawing)
        /\ (last_event'.type = "up")
            => /\ ~ coords'.drawing
               /\ coords'.x_end = last_event'.x
               /\ coords'.y_end = last_event'.y
               /\ DragStart(coords') = DragStart(coords) ]_vars

\* after a finished drag the mouse has moved to another point than the end
\* point, which stayed
Wit_C27_MoveAfterDrag ==
    /\ last_event.type = "move"
    /\ ~ coords.drawing
    /\ coords.ix # -1
    /\ <<last_event.x, last_event.y>> # <<coords.x_end, coords.y_end>>

-----------------------------------------------------------------------------
(* The order of the data file, checked under SpecFetcher *)

\* the draw number an issue string stands for (0 for a missing issue)
IssueNumber(text) ==
    CASE text = "2024001" -> 1
      [] text = "2024002" -> 2
      [] text = "2024003" -> 3
      [] OTHER -> 0

\* the records of d are in chronological order, oldest first
OldestFirst(d) ==
    \A i, j \in 1..Len(d) :
        i < j => IssueNumber(d[i].issue) < IssueNumber(d[j].issue)

\* the newest issue among the records of d
NewestIssue(d) ==
    CHOOSE t \in { d[i].issue : i \in 1..Len(d) } :
        \A i \in 1..Len(d) : IssueNumber(d[i].issue) <= IssueNumber(t)

\* C28: after fetch_and_save_all() and any number of update() calls, load()
\* returns the records oldest first, so the last loaded record (the recent
\* window of size 1) is the most recent draw, and get_local_latest_issue()
\* returns the newest stored issue
Cex_C28_LoadedOldestFirst ==
    fetched_all =>
        LET d == load(csv_lines)
        IN  /\ OldestFirst(d)
            /\ d # <<>> =>
                  /\ get_recent_data(d, 1)[1].issue = NewestIssue(d)
                  /\ get_local_latest_issue(csv_lines) = NewestIssue(d)

=============================================================================
